---- MODULE Spec2Model ----
(***************************************************************************)
(* Model of config/config.go of process-exporter: compilation of the       *)
(* process_names rule definitions (GetConfig, getMatchNamer), static name  *)
(* extraction (getProcessNames) and matching (FirstMatcher.MatchAndName,   *)
(* matchNamer.MatchAndName, commMatcher/exeMatcher/cmdlineMatcher.Match).  *)
(*                                                                         *)
(* Strings are sequences of one-character strings.  A Go map is a finite   *)
(* functional relation: a set of <<key, value>> pairs with unique keys.    *)
(* A name template and a regular expression are sequences of lexical       *)
(* tokens; the regexp and text/template engines are modelled on the token  *)
(* fragment the rule pools use.                                            *)
(***************************************************************************)
EXTENDS Integers, Sequences, FiniteSets, TLC

\* ---------------------------------------------------------------- bounds

\* Longest process_names list that is loaded.
MaxRules == 2

\* ------------------------------------------------------- strings and maps

RECURSIVE Join(_)
\* strings.Join(elems, " ")
Join(elems) ==
    IF elems = <<>> THEN <<>>
    ELSE IF Len(elems) = 1 THEN elems[1]
    ELSE elems[1] \o <<" ">> \o Join(Tail(elems))

\* strings.Contains(s, "/")
ContainsSlash(s) == \E i \in 1..Len(s) : s[i] = "/"

RECURSIVE StripTrailingSlashes(_)
StripTrailingSlashes(p) ==
    IF p # <<>> /\ p[Len(p)] = "/" THEN StripTrailingSlashes(SubSeq(p, 1, Len(p) - 1))
    ELSE p

\* filepath.Base on a Unix path.
Base(path) ==
    IF path = <<>> THEN <<".">>
    ELSE LET p == StripTrailingSlashes(path)
             slashes == {i \in 1..Len(p) : p[i] = "/"}
             last == IF slashes = {} THEN 0
                     ELSE CHOOSE i \in slashes : \A j \in slashes : j <= i
             q == SubSeq(p, last + 1, Len(p))
         IN  IF q = <<>> THEN <<"/">> ELSE q

\* m[k] = v on a Go map.
MapPut(m, k, v) == {p \in m : p[1] # k} \cup {<<k, v>>}

\* _, found := m[k]
MapHas(m, k) == \E p \in m : p[1] = k

\* m[k] of a key that is present.
MapGet(m, k) == (CHOOSE p \in m : p[1] = k)[2]

MapKeys(m) == {p[1] : p \in m}

\* ------------------------------------------------------ regexp capability

\* Tokens of a cmdline pattern that open a capture group.  "(" alone is an
\* unclosed group, which regexp.Compile rejects.
GroupTokens == {"(?P<v>.*)", "(?P<w>.*)", "(.*)"}

\* The name a group token gives its group ("" for an unnamed group).
GroupName(tok) ==
    CASE tok = "(?P<v>.*)" -> "v"
      [] tok = "(?P<w>.*)" -> "w"
      [] OTHER -> ""

IsGroupToken(tok) == tok \in GroupTokens

IsLiteralToken(tok) == tok \notin GroupTokens

RECURSIVE GroupNames(_)
GroupNames(text) ==
    IF text = <<>> THEN <<>>
    ELSE (IF IsGroupToken(Head(text)) THEN <<GroupName(Head(text))>> ELSE <<>>)
         \o GroupNames(Tail(text))

\* regexp.Compile of a pattern "literal text, then .* groups": an error for an
\* unclosed group, otherwise the compiled expression.
RegexpCompile(text) ==
    IF \E i \in 1..Len(text) : text[i] = "("
    THEN [err |-> TRUE, lit |-> <<>>, names |-> <<>>]
    ELSE [err |-> FALSE, lit |-> SelectSeq(text, IsLiteralToken), names |-> GroupNames(text)]

\* regex.SubexpNames(): index 0 is the whole match and has the empty name.
SubexpNames(re) == <<"">> \o re.names

RECURSIVE EmptyStrings(_)
\* n empty strings: the groups that matched the empty text.
EmptyStrings(n) == IF n <= 0 THEN <<>> ELSE <<<<>>>> \o EmptyStrings(n - 1)

\* regex.FindStringSubmatch(s): <<>> (nil) when the expression matches nowhere,
\* otherwise the leftmost match and its groups; the first .* group takes the
\* rest of the text, the following ones are empty.
FindStringSubmatch(re, s) ==
    LET n == Len(re.lit)
        starts == {i \in 1..(Len(s) - n + 1) : SubSeq(s, i, i + n - 1) = re.lit}
    IN  IF starts = {} THEN <<>>
        ELSE LET i == CHOOSE k \in starts : \A j \in starts : k <= j
             IN  IF re.names = <<>> THEN <<re.lit>>
                 ELSE <<SubSeq(s, i, Len(s)), SubSeq(s, i + n, Len(s))>>
                      \o EmptyStrings(Len(re.names) - 1)

\* ---------------------------------------------------- template capability

\* strconv formatting of a small non-negative integer.
Digit(d) == CASE d = 0 -> "0" [] d = 1 -> "1" [] d = 2 -> "2" [] d = 3 -> "3"
              [] d = 4 -> "4" [] d = 5 -> "5" [] d = 6 -> "6" [] d = 7 -> "7"
              [] d = 8 -> "8" [] OTHER -> "9"

RECURSIVE Itoa(_)
Itoa(n) == IF n < 10 THEN <<Digit(n)>> ELSE Itoa(n \div 10) \o <<Digit(n % 10)>>

\* Tokens of a name template that are actions; every other token is literal
\* text.  "{{" alone is an unclosed action, which Parse rejects; "{{.Bogus}}"
\* parses but names no field of templateParams, so Execute stops there.
MatchesTokens == {"{{.Matches.v}}", "{{.Matches.w}}"}

MatchesKey(tok) == IF tok = "{{.Matches.v}}" THEN "v" ELSE "w"

\* tmpl.Parse(nametmpl)
TemplateParse(text) ==
    IF \E i \in 1..Len(text) : text[i] = "{{"
    THEN [err |-> TRUE, template |-> <<>>]
    ELSE [err |-> FALSE, template |-> text]

RECURSIVE TemplateExecute(_, _)
\* template.Execute(&buf, params): what is in buf afterwards.  A missing key of
\* Matches prints "<no value>"; an unknown field ends the execution with an
\* error, which leaves the text written so far.
TemplateExecute(template, params) ==
    IF template = <<>> THEN <<>>
    ELSE LET tok == Head(template)
             rest == TemplateExecute(Tail(template), params)
         IN  CASE tok = "{{.Comm}}" -> params.Comm \o rest
               [] tok = "{{.ExeBase}}" -> params.ExeBase \o rest
               [] tok = "{{.ExeFull}}" -> params.ExeFull \o rest
               [] tok = "{{.Username}}" -> params.Username \o rest
               [] tok = "{{.PID}}" -> Itoa(params.PID) \o rest
               [] tok \in MatchesTokens ->
                    (IF MapHas(params.Matches, MatchesKey(tok))
                     THEN MapGet(params.Matches, MatchesKey(tok))
                     ELSE <<"<no value>">>) \o rest
               [] tok = "{{.Bogus}}" -> <<>>
               [] OTHER -> <<tok>> \o rest

\* ----------------------------------------------------------------- matchers

\* commMatcher.Match
commMatcherMatch(comms, nacl) == nacl.Name \in comms

\* exeMatcher.Match
exeMatcherMatch(exes, nacl) ==
    IF Len(nacl.Cmdline) = 0 THEN FALSE
    ELSE LET thisbase == Base(nacl.Cmdline[1])
         IN  IF ~MapHas(exes, thisbase) THEN FALSE
             ELSE LET fqpath == MapGet(exes, thisbase)
                  IN  IF fqpath = <<>> THEN TRUE
                      ELSE fqpath = nacl.Cmdline[1]

RECURSIVE StoreCapturesOnce(_, _, _)
\* StoreCaptures with a write that keeps the value a key already has.
StoreCapturesOnce(stored, subexpNames, captures) ==
    IF subexpNames = <<>> THEN stored
    ELSE StoreCapturesOnce(IF MapHas(stored, Head(subexpNames)) THEN stored
                           ELSE MapPut(stored, Head(subexpNames), Head(captures)),
                           Tail(subexpNames), Tail(captures))

RECURSIVE StoreCaptures(_, _, _)
\* for i, name := range subexpNames { m.captures[name] = captures[i] }
StoreCaptures(stored, subexpNames, captures) ==
    IF subexpNames = <<>> THEN stored
    ELSE StoreCaptures(MapPut(stored, Head(subexpNames), Head(captures)),
                       Tail(subexpNames), Tail(captures))

\* cmdlineLoop returning true once the first regex has matched.
cmdlineLoopFirstOnly(regexes, capturesNil, stored, nacl) ==
    IF regexes = <<>> THEN [ok |-> TRUE, captures |-> stored]
    ELSE LET regex == Head(regexes)
             captures == FindStringSubmatch(regex, Join(nacl.Cmdline))
             subexpNames == SubexpNames(regex)
         IN  IF capturesNil THEN [ok |-> FALSE, captures |-> stored]
             ELSE IF Len(subexpNames) # Len(captures)
                  THEN [ok |-> FALSE, captures |-> stored]
                  ELSE [ok |-> TRUE,
                        captures |-> StoreCaptures(stored, subexpNames, captures)]

RECURSIVE cmdlineLoop(_, _, _, _)
\* The loop of cmdlineMatcher.Match over the regexes that are left: the result
\* and the matcher's capture storage when it returns.
cmdlineLoop(regexes, capturesNil, stored, nacl) ==
    IF regexes = <<>> THEN [ok |-> TRUE, captures |-> stored]
    ELSE LET regex == Head(regexes)
             captures == FindStringSubmatch(regex, Join(nacl.Cmdline))
             subexpNames == SubexpNames(regex)
         IN  IF capturesNil THEN [ok |-> FALSE, captures |-> stored]
             ELSE IF Len(subexpNames) # Len(captures)
                  THEN [ok |-> FALSE, captures |-> stored]
                  ELSE cmdlineLoop(Tail(regexes), capturesNil,
                                   StoreCaptures(stored, subexpNames, captures), nacl)

\* cmdlineMatcher.Match on the matcher of rule m.
cmdlineMatcherMatch(m, nacl) == cmdlineLoop(m.regexes, m.capturesNil, m.captures, nacl)

\* andMatcher.Match on the leaf matchers of rule m, in the order getMatchNamer
\* appended them (comm, exe, cmdline), stopping at the first that fails.
andMatcherMatch(m, nacl) ==
    IF m.hasComm /\ ~commMatcherMatch(m.comms, nacl)
    THEN [ok |-> FALSE, captures |-> m.captures]
    ELSE IF m.hasExe /\ ~exeMatcherMatch(m.exes, nacl)
         THEN [ok |-> FALSE, captures |-> m.captures]
         ELSE IF m.hasCmdline THEN cmdlineMatcherMatch(m, nacl)
              ELSE [ok |-> TRUE, captures |-> m.captures]

\* The templateParams record matchNamer.MatchAndName builds.
TemplateParams(nacl, matches) ==
    [Comm |-> nacl.Name,
     ExeBase |-> IF Len(nacl.Cmdline) > 0 THEN Base(nacl.Cmdline[1]) ELSE nacl.Name,
     ExeFull |-> IF Len(nacl.Cmdline) > 0 THEN nacl.Cmdline[1] ELSE nacl.Name,
     Matches |-> matches,
     Username |-> nacl.Username,
     PID |-> nacl.PID]

\* matchNamer.MatchAndName: the result and the rule's capture storage afterwards.
\* matches is the copy of the cmdline matcher's captures (empty without one).
matchNamerMatchAndName(m, nacl) ==
    LET r == andMatcherMatch(m, nacl)
        matches == IF m.hasCmdline THEN r.captures ELSE {}
    IN  IF ~r.ok THEN [matched |-> FALSE, name |-> <<>>, captures |-> r.captures]
        ELSE [matched |-> TRUE,
              name |-> TemplateExecute(m.template, TemplateParams(nacl, matches)),
              captures |-> r.captures]

RECURSIVE FirstMatcherLoopLast(_, _, _)
\* FirstMatcherLoop that goes on after a match and answers with the last one.
FirstMatcherLoopLast(matchers, i, nacl) ==
    IF i > Len(matchers)
    THEN [matched |-> FALSE, name |-> <<>>, rule |-> 0, matchers |-> matchers]
    ELSE LET r == matchNamerMatchAndName(matchers[i], nacl)
             after == [matchers EXCEPT ![i].captures = r.captures]
             later == FirstMatcherLoopLast(after, i + 1, nacl)
         IN  IF later.matched \/ ~r.matched THEN later
             ELSE [matched |-> TRUE, name |-> r.name, rule |-> i, matchers |-> later.matchers]

RECURSIVE FirstMatcherLoop(_, _, _)
\* The loop of FirstMatcher.MatchAndName from rule i on: the result, the index
\* of the rule that produced it (0 for none) and the matchers afterwards.
FirstMatcherLoop(matchers, i, nacl) ==
    IF i > Len(matchers)
    THEN [matched |-> FALSE, name |-> <<>>, rule |-> 0, matchers |-> matchers]
    ELSE LET r == matchNamerMatchAndName(matchers[i], nacl)
             after == [matchers EXCEPT ![i].captures = r.captures]
         IN  IF r.matched
             THEN [matched |-> TRUE, name |-> r.name, rule |-> i, matchers |-> after]
             ELSE FirstMatcherLoop(after, i + 1, nacl)

\* FirstMatcher.MatchAndName
FirstMatcherMatchAndName(matchers, nacl) == FirstMatcherLoop(matchers, 1, nacl)

\* ------------------------------------------------------ rule definitions

(* A rule definition as yaml.Unmarshal delivers it.  isMap is false for an   *)
(* entry that is no mapping.  badKey says the mapping has a key that is no   *)
(* string.  name is [t, s] with t "absent", "nonstring" or "str";            *)
(* report_missing is "absent", "true", "false" or "nonbool"; comm, exe and   *)
(* cmdline are [t, items] with t "absent", "nonlist" or "list" and every     *)
(* item [isStr, s].                                                          *)

Absent == [t |-> "absent", items |-> <<>>]

NonList == [t |-> "nonlist", items |-> <<>>]

RECURSIVE StrItems(_)
StrItems(ss) ==
    IF ss = <<>> THEN <<>> ELSE <<[isStr |-> TRUE, s |-> Head(ss)]>> \o StrItems(Tail(ss))

\* A list of strings.
List(ss) == [t |-> "list", items |-> StrItems(ss)]

\* A list whose last element is a number.
ListWithNumber(ss) ==
    [t |-> "list", items |-> StrItems(ss) \o <<[isStr |-> FALSE, s |-> <<>>]>>]

NoName == [t |-> "absent", s |-> <<>>]

NonStringName == [t |-> "nonstring", s |-> <<>>]

Name(s) == [t |-> "str", s |-> s]

Def(name, rm, comm, exe, cmdline) ==
    [isMap |-> TRUE, badKey |-> FALSE, name |-> name, report_missing |-> rm,
     comm |-> comm, exe |-> exe, cmdline |-> cmdline]

\* The key of a mapping that is no string.
NonStringKey == "<non-string key>"

\* The keys of the mapping.
Keys(def) ==
    (IF def.name.t # "absent" THEN {"name"} ELSE {})
    \cup (IF def.report_missing # "absent" THEN {"report_missing"} ELSE {})
    \cup (IF def.comm.t # "absent" THEN {"comm"} ELSE {})
    \cup (IF def.exe.t # "absent" THEN {"exe"} ELSE {})
    \cup (IF def.cmdline.t # "absent" THEN {"cmdline"} ELSE {})
    \cup (IF def.badKey THEN {NonStringKey} ELSE {})

RECURSIVE Perms(_)
\* The orders in which `for k, v := range nm` may visit the keys S.
Perms(S) ==
    IF S = {} THEN {<<>>}
    ELSE UNION {{<<k>> \o rest : rest \in Perms(S \ {k})} : k \in S}

Orders(def) == Perms(Keys(def))

\* The list under a list-valued key.
ListOf(def, key) ==
    CASE key = "comm" -> def.comm
      [] key = "exe" -> def.exe
      [] OTHER -> def.cmdline

RECURSIVE Strings(_)
\* The strings of a list of string items.
Strings(items) == IF items = <<>> THEN <<>> ELSE <<Head(items).s>> \o Strings(Tail(items))

AllStrings(items) == \A k \in 1..Len(items) : items[k].isStr

\* -------------------------------------------------------- getMatchNamer

RECURSIVE KeyLoop(_, _)
\* The loop of getMatchNamer over the keys, in the order the map yields them:
\* the first error met, "" for none.
KeyLoop(def, order) ==
    IF order = <<>> THEN ""
    ELSE LET key == Head(order)
         IN  IF key = NonStringKey THEN "non-string key"
             ELSE IF key = "name"
                  THEN IF def.name.t # "str" THEN "non-string value for key"
                       ELSE KeyLoop(def, Tail(order))
                  ELSE IF key = "report_missing" THEN KeyLoop(def, Tail(order))
                  ELSE IF ListOf(def, key).t # "list" THEN "non-string array value for key"
                       ELSE IF ~AllStrings(ListOf(def, key).items)
                            THEN "non-string value in list for key"
                            ELSE KeyLoop(def, Tail(order))

RECURSIVE MakeExes(_, _)
\* for _, e := range exe { ... exes[...] = ... }
MakeExes(exes, exe) ==
    IF exe = <<>> THEN exes
    ELSE LET e == Head(exe)
         IN  MakeExes(IF ContainsSlash(e) THEN MapPut(exes, Base(e), e)
                      ELSE MapPut(exes, e, <<>>),
                      Tail(exe))

RECURSIVE CompileAll(_)
\* for _, c := range cmdline { r, err := regexp.Compile(c) ... }
CompileAll(cmdline) ==
    IF cmdline = <<>> THEN [err |-> FALSE, rs |-> <<>>]
    ELSE LET r == RegexpCompile(Head(cmdline))
             rest == CompileAll(Tail(cmdline))
         IN  IF r.err \/ rest.err THEN [err |-> TRUE, rs |-> <<>>]
             ELSE [err |-> FALSE, rs |-> <<[lit |-> r.lit, names |-> r.names]>> \o rest.rs]

\* The matchNamer of a definition that yields none.
NoMatchNamer ==
    [hasComm |-> FALSE, comms |-> {}, hasExe |-> FALSE, exes |-> {},
     hasCmdline |-> FALSE, regexes |-> <<>>, capturesNil |-> TRUE, captures |-> {},
     template |-> <<>>]

\* getMatchNamer with the keys visited in the given order: the error ("" for
\* none) and the matchNamer.
getMatchNamer(def, order) ==
    IF ~def.isMap THEN [err |-> "not a map", mn |-> NoMatchNamer]
    ELSE LET keyErr == KeyLoop(def, order)
             hasComm == def.comm.t = "list"
             hasExe == def.exe.t = "list"
             hasCmdline == def.cmdline.t = "list"
             rs == IF hasCmdline THEN CompileAll(Strings(def.cmdline.items))
                   ELSE [err |-> FALSE, rs |-> <<>>]
             nametmpl == IF def.name.t = "str" /\ def.name.s # <<>> THEN def.name.s
                         ELSE <<"{{.ExeBase}}">>
             tmpl == TemplateParse(nametmpl)
         IN  IF keyErr # "" THEN [err |-> keyErr, mn |-> NoMatchNamer]
             ELSE IF rs.err THEN [err |-> "bad cmdline regex", mn |-> NoMatchNamer]
             ELSE IF ~(hasComm \/ hasExe \/ hasCmdline)
                  THEN [err |-> "no matchers provided", mn |-> NoMatchNamer]
             ELSE IF tmpl.err THEN [err |-> "bad name template", mn |-> NoMatchNamer]
             ELSE [err |-> "",
                   mn |-> [hasComm |-> hasComm,
                           comms |-> IF hasComm
                                     THEN {def.comm.items[k].s : k \in 1..Len(def.comm.items)}
                                     ELSE {},
                           hasExe |-> hasExe,
                           exes |-> IF hasExe THEN MakeExes({}, Strings(def.exe.items))
                                    ELSE {},
                           hasCmdline |-> hasCmdline,
                           regexes |-> rs.rs,
                           capturesNil |-> ~hasCmdline,
                           captures |-> {},
                           template |-> tmpl.template]]

\* ------------------------------------------------------ getProcessNames

RECURSIVE ReportMissingLoop(_, _)
\* The first loop of getProcessNames: "nil" for a return of nil inside the loop,
\* otherwise "seen" or "unseen", the value of reportMissingFlag after the loop.
ReportMissingLoop(def, order) ==
    IF order = <<>> THEN "unseen"
    ELSE LET key == Head(order)
             rest == ReportMissingLoop(def, Tail(order))
         IN  IF key = NonStringKey THEN "nil"
             ELSE IF key = "report_missing"
                  THEN IF def.report_missing = "nonbool" THEN "nil"
                       ELSE IF def.report_missing = "true" THEN "seen"
                       ELSE IF rest = "nil" THEN "nil" ELSE "seen"
                  ELSE rest

RECURSIVE NameLoop(_, _)
\* The second loop: "nil" for a return of nil, "name" for the return of the
\* name, "none" when the loop ends without returning.
NameLoop(def, order) ==
    IF order = <<>> THEN "none"
    ELSE LET key == Head(order)
         IN  IF key = NonStringKey THEN "nil"
             ELSE IF key = "name"
                  THEN IF def.name.t # "str" THEN "nil" ELSE "name"
                  ELSE NameLoop(def, Tail(order))

\* ExeName without the basename of a path.
ExeNameAsWritten(value) == value

\* What one exe string adds to the names.
ExeName(value) == IF ContainsSlash(value) THEN Base(value) ELSE value

RECURSIVE ExeNames(_)
ExeNames(values) ==
    IF values = <<>> THEN <<>> ELSE <<ExeName(Head(values))>> \o ExeNames(Tail(values))

RECURSIVE ListsLoop(_, _, _)
\* The third loop, appending to names: [nil, names].
ListsLoop(def, order, names) ==
    IF order = <<>> THEN [nil |-> FALSE, names |-> names]
    ELSE LET key == Head(order)
         IN  IF key = NonStringKey THEN [nil |-> TRUE, names |-> <<>>]
             ELSE IF key = "comm"
                  THEN IF def.comm.t # "list" \/ ~AllStrings(def.comm.items)
                       THEN [nil |-> TRUE, names |-> <<>>]
                       ELSE ListsLoop(def, Tail(order), names \o Strings(def.comm.items))
             ELSE IF key = "exe"
                  THEN IF def.exe.t # "list" \/ ~AllStrings(def.exe.items)
                       THEN [nil |-> TRUE, names |-> <<>>]
                       ELSE ListsLoop(def, Tail(order),
                                      names \o ExeNames(Strings(def.exe.items)))
             ELSE ListsLoop(def, Tail(order), names)

\* getProcessNames, given what its three loops come to.
getProcessNames(def, first, second, third) ==
    IF ~def.isMap THEN <<>>
    ELSE IF first # "seen" THEN <<>>
    ELSE IF second = "nil" THEN <<>>
    ELSE IF second = "name" THEN <<def.name.s>>
    ELSE IF third.nil THEN <<>>
    ELSE third.names

\* The lists getProcessNames can return: each of its loops visits the keys in
\* an order of its own.
ProcessNamesOutcomes(def) ==
    {getProcessNames(def, first, second, third) :
        first \in {ReportMissingLoop(def, o) : o \in Orders(def)},
        second \in {NameLoop(def, o) : o \in Orders(def)},
        third \in {ListsLoop(def, o, <<>>) : o \in Orders(def)}}

\* What getMatchNamer can return.
MatchNamerOutcomes(def) == {getMatchNamer(def, o) : o \in Orders(def)}

\* ------------------------------------------------------------- GetConfig

\* The return values of GetConfig: status "ok" with the Config's matchers and
\* the name list, or status "err" with the error and two nil pointers (an
\* error of the loop carries the index of its entry, the others -1).
Failure(index, reason) ==
    [status |-> "err", index |-> index, reason |-> reason,
     matchers |-> <<>>, processNames |-> <<>>]

RECURSIVE GetConfigLoopSkipping(_, _, _, _)
\* GetConfigLoop that leaves out an entry that does not compile and goes on.
GetConfigLoopSkipping(procnames, i, matchers, processNames) ==
    IF i >= Len(procnames)
    THEN {[status |-> "ok", index |-> -1, reason |-> "",
           matchers |-> matchers, processNames |-> processNames]}
    ELSE UNION {
           IF r.err # ""
           THEN GetConfigLoopSkipping(procnames, i + 1, matchers, processNames)
           ELSE UNION {GetConfigLoopSkipping(procnames, i + 1, Append(matchers, r.mn),
                                             processNames \o pNames) :
                          pNames \in ProcessNamesOutcomes(procnames[i + 1])}
           : r \in MatchNamerOutcomes(procnames[i + 1])}

RECURSIVE GetConfigLoopPrepending(_, _, _, _)
\* GetConfigLoop that puts the names of an entry before those collected so far.
GetConfigLoopPrepending(procnames, i, matchers, processNames) ==
    IF i >= Len(procnames)
    THEN {[status |-> "ok", index |-> -1, reason |-> "",
           matchers |-> matchers, processNames |-> processNames]}
    ELSE UNION {
           IF r.err # "" THEN {Failure(i, r.err)}
           ELSE UNION {GetConfigLoopPrepending(procnames, i + 1, Append(matchers, r.mn),
                                               pNames \o processNames) :
                          pNames \in ProcessNamesOutcomes(procnames[i + 1])}
           : r \in MatchNamerOutcomes(procnames[i + 1])}

RECURSIVE GetConfigLoop(_, _, _, _)
\* The loop of GetConfig from entry i (counted from 0) on, with the matchers
\* and names collected so far: the set of possible return values.
GetConfigLoop(procnames, i, matchers, processNames) ==
    IF i >= Len(procnames)
    THEN {[status |-> "ok", index |-> -1, reason |-> "",
           matchers |-> matchers, processNames |-> processNames]}
    ELSE UNION {
           IF r.err # "" THEN {Failure(i, r.err)}
           ELSE UNION {GetConfigLoop(procnames, i + 1, Append(matchers, r.mn),
                                     processNames \o pNames) :
                          pNames \in ProcessNamesOutcomes(procnames[i + 1])}
           : r \in MatchNamerOutcomes(procnames[i + 1])}

\* GetConfig on a document: the set of possible return values.
GetConfigOutcomes(doc) ==
    IF doc.kind = "badyaml" THEN {Failure(-1, "yaml")}
    ELSE IF doc.kind = "nokey" THEN {Failure(-1, "no top-level 'process_names' key")}
    ELSE IF doc.kind = "notlist" THEN {Failure(-1, "'process_names' is not a list")}
    ELSE GetConfigLoop(doc.procnames, 0, <<>>, <<>>)

\* ------------------------------------------------------------------ state

VARIABLES
    content,      \* the document handed to GetConfig: [kind, procnames]
    pc,           \* "start" before GetConfig has run, "done" after
    ret,          \* what GetConfig returned; ret.matchers is the live Config
    extracted,    \* the last direct call of getProcessNames: [entry, names]
    call,         \* the last call on the Config: [kind, nacl, rule, ok, name] and
                  \* stale, the capture storage of its rule before the call
    th            \* the calls of MatchAndName that run concurrently, by thread

vars == <<content, pc, ret, extracted, call, th>>

NoReturn ==
    [status |-> "none", index |-> -1, reason |-> "",
     matchers |-> <<>>, processNames |-> <<>>]

NoNacl == [Name |-> <<>>, Cmdline |-> <<>>, Username |-> <<>>, PID |-> 0]

NoCall ==
    [kind |-> "none", nacl |-> NoNacl, rule |-> 0, ok |-> FALSE, name |-> <<>>,
     stale |-> {}]

RECURSIVE SeqsUpTo(_, _)
\* The sequences over S of length at most n.
SeqsUpTo(S, n) ==
    IF n = 0 THEN {<<>>}
    ELSE SeqsUpTo(S, n - 1)
         \cup {Append(q, x) : q \in {r \in SeqsUpTo(S, n - 1) : Len(r) = n - 1}, x \in S}

\* GetConfig(content)
GetConfig ==
    /\ pc = "start"
    /\ \E r \in GetConfigOutcomes(content) : ret' = r
    /\ pc' = "done"
    /\ UNCHANGED <<content, extracted, call, th>>

\* getProcessNames(procnames[k]), called on its own.
GetProcessNames ==
    /\ content.kind = "list"
    /\ \E k \in 1..Len(content.procnames) :
         \E names \in ProcessNamesOutcomes(content.procnames[k]) :
            extracted' = [entry |-> k, names |-> names]
    /\ UNCHANGED <<content, pc, ret, call, th>>

\* The Config is loaded and can be used.
Loaded == pc = "done" /\ ret.status = "ok"

PathXb == <<"/", "x", "/", "b">>

PathYb == <<"/", "y", "/", "b">>

\* The processes that are sampled.
Procs ==
    {[Name |-> <<"a">>, Cmdline |-> <<>>, Username |-> <<"u">>, PID |-> 7],
     [Name |-> <<"b">>, Cmdline |-> <<PathXb, <<"a">>>>, Username |-> <<"u">>, PID |-> 12],
     [Name |-> <<"b">>, Cmdline |-> <<PathYb, <<"b">>, <<"a">>>>, Username |-> <<"r">>, PID |-> 7],
     [Name |-> <<"a">>, Cmdline |-> <<<<"a">>, <<"b">>>>, Username |-> <<"r">>, PID |-> 12],
     [Name |-> <<"a">>, Cmdline |-> <<<<"a">>>>, Username |-> <<"u">>, PID |-> 7]}

\* f.MatchAndName(nacl) on the loaded Config.
MatchAndName ==
    /\ Loaded
    /\ \E nacl \in Procs :
         LET r == FirstMatcherMatchAndName(ret.matchers, nacl)
         IN  /\ ret' = [ret EXCEPT !.matchers = r.matchers]
             /\ call' = [kind |-> "MatchAndName", nacl |-> nacl, rule |-> r.rule,
                         ok |-> r.matched, name |-> r.name,
                         stale |-> IF r.rule = 0 THEN {}
                                   ELSE ret.matchers[r.rule].captures]
    /\ UNCHANGED <<content, pc, extracted, th>>

\* Match(nacl) on the commMatcher of rule k.
CommMatch ==
    /\ Loaded
    /\ \E k \in 1..Len(ret.matchers), nacl \in Procs :
         /\ ret.matchers[k].hasComm
         /\ call' = [kind |-> "comm", nacl |-> nacl, rule |-> k,
                     ok |-> commMatcherMatch(ret.matchers[k].comms, nacl), name |-> <<>>,
                     stale |-> {}]
    /\ UNCHANGED <<content, pc, ret, extracted, th>>

\* Match(nacl) on the exeMatcher of rule k.
ExeMatch ==
    /\ Loaded
    /\ \E k \in 1..Len(ret.matchers), nacl \in Procs :
         /\ ret.matchers[k].hasExe
         /\ call' = [kind |-> "exe", nacl |-> nacl, rule |-> k,
                     ok |-> exeMatcherMatch(ret.matchers[k].exes, nacl), name |-> <<>>,
                     stale |-> {}]
    /\ UNCHANGED <<content, pc, ret, extracted, th>>

\* Match(nacl) on the cmdlineMatcher of rule k.
CmdlineMatch ==
    /\ Loaded
    /\ \E k \in 1..Len(ret.matchers), nacl \in Procs :
         /\ ret.matchers[k].hasCmdline
         /\ LET r == cmdlineMatcherMatch(ret.matchers[k], nacl)
            IN  /\ ret' = [ret EXCEPT !.matchers[k].captures = r.captures]
                /\ call' = [kind |-> "cmdline", nacl |-> nacl, rule |-> k,
                            ok |-> r.ok, name |-> <<>>,
                            stale |-> ret.matchers[k].captures]
    /\ UNCHANGED <<content, pc, extracted, th>>

\* ---------------------------------------------------- concurrent calls

(* Two goroutines call f.MatchAndName on the same Config.  A thread is at   *)
(* "idle", at "rule" (the head of FirstMatcher's loop, rule being the next   *)
(* rule), at "regex" (the head of cmdlineMatcher.Match's loop, re being the  *)
(* next regex), at "store" (about to write capture sub of found into the     *)
(* shared map), at "copy" (inside matchNamer's loop over the shared map,     *)
(* copied being the keys it has read), or at "done".  The map is not         *)
(* synchronized: any interleaving of the single reads and writes can occur,  *)
(* and the runtime may stop the program when it notices a write during       *)
(* another access ("crashed").                                               *)

Threads == {1, 2}

Idle ==
    [pc |-> "idle", nacl |-> NoNacl, rule |-> 0, re |-> 0, sub |-> 0, found |-> <<>>,
     matches |-> {}, copied |-> {}, ok |-> FALSE, name |-> <<>>]

\* go f.MatchAndName(nacl)
Call(t) ==
    /\ Loaded
    /\ th[t].pc = "idle"
    /\ \E nacl \in Procs :
         /\ \A u \in Threads \ {t} : th[u].nacl # nacl
         /\ th' = [th EXCEPT ![t] = [Idle EXCEPT !.pc = "rule", !.nacl = nacl, !.rule = 1]]
    /\ UNCHANGED <<content, pc, ret, extracted, call>>

\* The head of FirstMatcher's loop, and andMatcher.Match up to the cmdline
\* matcher: the comm and exe matchers read nothing that is ever written.
RuleStep(t) ==
    /\ th[t].pc = "rule"
    /\ LET me == th[t]
           m == ret.matchers[me.rule]
       IN  th' = [th EXCEPT ![t] =
                IF me.rule > Len(ret.matchers) THEN [me EXCEPT !.pc = "done"]
                ELSE IF (m.hasComm /\ ~commMatcherMatch(m.comms, me.nacl))
                        \/ (m.hasExe /\ ~exeMatcherMatch(m.exes, me.nacl))
                     THEN [me EXCEPT !.rule = me.rule + 1]
                     ELSE IF m.hasCmdline THEN [me EXCEPT !.pc = "regex", !.re = 1]
                          ELSE [me EXCEPT !.pc = "copy", !.matches = {}, !.copied = {}]]
    /\ UNCHANGED <<content, pc, ret, extracted, call>>

\* The head of cmdlineMatcher.Match's loop: FindStringSubmatch and the two tests.
RegexStep(t) ==
    /\ th[t].pc = "regex"
    /\ LET me == th[t]
           m == ret.matchers[me.rule]
           captures == FindStringSubmatch(m.regexes[me.re], Join(me.nacl.Cmdline))
       IN  th' = [th EXCEPT ![t] =
                IF me.re > Len(m.regexes)
                THEN [me EXCEPT !.pc = "copy", !.matches = {}, !.copied = {}]
                ELSE IF m.capturesNil \/ Len(SubexpNames(m.regexes[me.re])) # Len(captures)
                     THEN [me EXCEPT !.pc = "rule", !.rule = me.rule + 1]
                     ELSE [me EXCEPT !.pc = "store", !.sub = 1, !.found = captures]]
    /\ UNCHANGED <<content, pc, ret, extracted, call>>

\* m.captures[name] = captures[i]
StoreStep(t) ==
    /\ th[t].pc = "store"
    /\ LET me == th[t]
           m == ret.matchers[me.rule]
           names == SubexpNames(m.regexes[me.re])
       IN  /\ ret' = [ret EXCEPT !.matchers[me.rule].captures =
                          MapPut(m.captures, names[me.sub], me.found[me.sub])]
           /\ th' = [th EXCEPT ![t] =
                       IF me.sub < Len(names) THEN [me EXCEPT !.sub = me.sub + 1]
                       ELSE [me EXCEPT !.pc = "regex", !.re = me.re + 1]]
    /\ UNCHANGED <<content, pc, extracted, call>>

\* matches[k] = v, for one key of the cmdline matcher's map.
CopyStep(t) ==
    /\ th[t].pc = "copy"
    /\ LET me == th[t]
           m == ret.matchers[me.rule]
       IN  /\ m.hasCmdline
           /\ \E k \in MapKeys(m.captures) \ me.copied :
                th' = [th EXCEPT ![t] =
                         [me EXCEPT !.matches = MapPut(me.matches, k, MapGet(m.captures, k)),
                                    !.copied = me.copied \cup {k}]]
    /\ UNCHANGED <<content, pc, ret, extracted, call>>

\* The loop over the map has ended: the template is executed and the call returns.
RenderStep(t) ==
    /\ th[t].pc = "copy"
    /\ LET me == th[t]
           m == ret.matchers[me.rule]
       IN  /\ m.hasCmdline => MapKeys(m.captures) \subseteq me.copied
           /\ th' = [th EXCEPT ![t] =
                       [me EXCEPT !.pc = "done", !.ok = TRUE,
                                  !.name = TemplateExecute(m.template,
                                               TemplateParams(me.nacl, me.matches))]]
    /\ UNCHANGED <<content, pc, ret, extracted, call>>

\* A thread is inside an access to the capture map of the given rule.
Writing(t, k) == th[t].pc = "store" /\ th[t].rule = k

Reading(t, k) == th[t].pc = "copy" /\ th[t].rule = k /\ ret.matchers[k].hasCmdline

\* The runtime notices a map write during another access and ends the program.
Fatal ==
    /\ \E t \in Threads, u \in Threads, k \in 1..Len(ret.matchers) :
         t # u /\ Writing(t, k) /\ (Writing(u, k) \/ Reading(u, k))
    /\ th' = [t \in Threads |-> [th[t] EXCEPT !.pc = "crashed"]]
    /\ UNCHANGED <<content, pc, ret, extracted, call>>

\* ----------------------------------------------- loading: the documents

Sa == <<"a">>

Sb == <<"b">>

Sn == <<"n">>

\* Definitions of the documented shape: every combination of a name, a
\* report_missing flag, a comm list and an exe list.
TypedDefs ==
    {Def(name, rm, comm, exe, Absent) :
        name \in {NoName, Name(Sn)},
        rm \in {"absent", "true", "false"},
        comm \in {Absent, List(<<Sa>>)},
        exe \in {Absent, List(<<Sb, PathXb>>)}}

\* Definitions getMatchNamer or getProcessNames has to reject or look into.
OddDefs ==
    {[Def(NoName, "true", List(<<Sa>>), Absent, Absent) EXCEPT !.isMap = FALSE],
     [Def(Name(Sn), "true", List(<<Sa>>), Absent, Absent) EXCEPT !.badKey = TRUE],
     Def(NonStringName, "true", List(<<Sa>>), Absent, Absent),
     Def(Name(<<"n", "{{">>), "true", List(<<Sa>>), Absent, Absent),
     Def(NoName, "nonbool", List(<<Sa>>), Absent, Absent),
     Def(NoName, "true", NonList, List(<<Sb>>), Absent),
     Def(NoName, "true", ListWithNumber(<<Sa>>), List(<<Sb>>), Absent),
     Def(NoName, "true", List(<<Sa>>), ListWithNumber(<<Sb>>), Absent),
     Def(NoName, "true", List(<<Sa>>), Absent, List(<<<<"a", "(">>>>)),
     Def(NoName, "true", Absent, Absent, List(<<<<"a", "(?P<v>.*)">>>>)),
     Def(Name(Sn), "false", Absent, List(<<PathXb>>), NonList),
     Def(NoName, "true", Absent, List(<<PathXb>>), Absent)}

LoadDefs == TypedDefs \cup OddDefs

LoadDocs ==
    {[kind |-> k, procnames |-> <<>>] : k \in {"badyaml", "nokey", "notlist"}}
    \cup {[kind |-> "list", procnames |-> q] : q \in SeqsUpTo(LoadDefs, MaxRules)}

InitLoad ==
    /\ content \in LoadDocs
    /\ pc = "start"
    /\ ret = NoReturn
    /\ extracted = [entry |-> 0, names |-> <<>>]
    /\ call = NoCall
    /\ th = [t \in Threads |-> Idle]

NextLoad == GetConfig \/ GetProcessNames

\* Loading a document and extracting names from its definitions.
SpecLoad == InitLoad /\ [][NextLoad]_vars

\* ---------------------------------------------- matching: the documents

MatchesV == "{{.Matches.v}}"

MatchesW == "{{.Matches.w}}"

\* Rule definitions that compile, with every kind of matcher and template.
MatchDefs ==
    {Def(Name(<<>>), "absent", List(<<Sa, Sb>>), Absent, Absent),
     Def(Name(<<"{{.Comm}}", "{{.Bogus}}", "h">>), "absent", Absent, List(<<Sb, PathXb>>), Absent),
     Def(NoName, "true", Absent, List(<<PathXb, PathYb>>), Absent),
     Def(Name(<<MatchesV>>), "absent", Absent, Absent, List(<<<<"a", "(?P<v>.*)">>>>)),
     Def(Name(<<MatchesV, "-", MatchesW>>), "absent", Absent, Absent,
         List(<<<<"a", "(?P<v>.*)">>, <<"b", "(?P<w>.*)", "(.*)">>>>)),
     Def(Name(<<"{{.ExeFull}}", "{{.Username}}", "{{.PID}}", MatchesV>>), "absent",
         List(<<Sa>>), Absent, List(<<<<"a", " ", "b">>, <<"b", "(?P<v>.*)">>>>))}

MatchDocs == {[kind |-> "list", procnames |-> q] : q \in SeqsUpTo(MatchDefs, MaxRules)}

Init ==
    /\ content \in MatchDocs
    /\ pc = "start"
    /\ ret = NoReturn
    /\ extracted = [entry |-> 0, names |-> <<>>]
    /\ call = NoCall
    /\ th = [t \in Threads |-> Idle]

Next == GetConfig \/ MatchAndName \/ CommMatch \/ ExeMatch \/ CmdlineMatch

\* Loading a document of rules that compile, then calls one after another.
Spec == Init /\ [][Next]_vars

\* Rule definitions with a cmdline matcher whose captures the name shows.
ConcDefs ==
    {Def(Name(<<MatchesV>>), "absent", Absent, Absent, List(<<<<"a", "(?P<v>.*)">>>>)),
     Def(Name(<<MatchesV, "-", MatchesW>>), "absent", Absent, Absent,
         List(<<<<"a", "(?P<v>.*)">>, <<"b", "(?P<w>.*)">>>>)),
     Def(NoName, "absent", List(<<Sa>>), Absent, Absent)}

ConcDocs == {[kind |-> "list", procnames |-> q] : q \in SeqsUpTo(ConcDefs, MaxRules)}

InitConc ==
    /\ content \in ConcDocs
    /\ pc = "start"
    /\ ret = NoReturn
    /\ extracted = [entry |-> 0, names |-> <<>>]
    /\ call = NoCall
    /\ th = [t \in Threads |-> Idle]

NextConc ==
    \/ GetConfig
    \/ \E t \in Threads :
         Call(t) \/ RuleStep(t) \/ RegexStep(t) \/ StoreStep(t) \/ CopyStep(t) \/ RenderStep(t)
    \/ Fatal

\* Loading a document, then two calls of MatchAndName at the same time.
SpecConc == InitConc /\ [][NextConc]_vars

\* ------------------------------------------------- claims about loading

\* The definition has the documented shape as far as getProcessNames looks:
\* a mapping with string keys, a string under name, and, when there is no
\* name, lists of strings under comm and exe.
ExtractionTyped(def) ==
    /\ def.isMap /\ ~def.badKey
    /\ def.name.t \in {"absent", "str"}
    /\ def.name.t = "absent" =>
         /\ def.comm.t = "absent" \/ (def.comm.t = "list" /\ AllStrings(def.comm.items))
         /\ def.exe.t = "absent" \/ (def.exe.t = "list" /\ AllStrings(def.exe.items))

\* The two lists hold the same strings, each as often.
SameCollection(s1, s2) ==
    /\ Len(s1) = Len(s2)
    /\ \A k \in 1..Len(s1) :
         Cardinality({j \in 1..Len(s1) : s1[j] = s1[k]})
           = Cardinality({j \in 1..Len(s2) : s2[j] = s1[k]})

RECURSIVE Basenames(_)
\* What the exe strings are to contribute: a string with a separator its
\* basename, a bare string itself.
Basenames(values) ==
    IF values = <<>> THEN <<>>
    ELSE <<IF ContainsSlash(Head(values)) THEN Base(Head(values)) ELSE Head(values)>>
         \o Basenames(Tail(values))

\* The definition compiles: none of the errors of getMatchNamer applies.
Compiles(def) ==
    /\ def.isMap /\ ~def.badKey
    /\ def.name.t \in {"absent", "str"}
    /\ \A key \in {"comm", "exe", "cmdline"} :
         ListOf(def, key).t = "absent"
         \/ (ListOf(def, key).t = "list" /\ AllStrings(ListOf(def, key).items))
    /\ \A k \in 1..Len(def.cmdline.items) : "(" \notin {def.cmdline.items[k].s[j] : j \in 1..Len(def.cmdline.items[k].s)}
    /\ def.name.t = "str" => "{{" \notin {def.name.s[j] : j \in 1..Len(def.name.s)}
    /\ \E key \in {"comm", "exe", "cmdline"} : ListOf(def, key).t = "list"

RECURSIVE ExtractedLists(_)
\* The concatenations, in definition order, of one extracted list for each
\* definition.
ExtractedLists(procnames) ==
    IF procnames = <<>> THEN {<<>>}
    ELSE {h \o t : h \in ProcessNamesOutcomes(Head(procnames)),
                   t \in ExtractedLists(Tail(procnames))}

Quiet(def) == def.report_missing \in {"absent", "false"}

\* C4: a definition whose report_missing is false or absent contributes no
\* static name: getProcessNames returns none for it, and a document made of
\* such definitions only loads with an empty name list.
C4_NoNamesWithoutReportMissing ==
    /\ (extracted.entry > 0 /\ Quiet(content.procnames[extracted.entry]))
         => extracted.names = <<>>
    /\ (ret.status = "ok" /\ \A k \in 1..Len(content.procnames) : Quiet(content.procnames[k]))
         => ret.processNames = <<>>

\* C5: for a definition of the documented shape with report_missing true,
\* getProcessNames returns the name alone when there is a name key, and
\* otherwise exactly the comm strings and, for every exe string, its basename
\* (the string itself when it has no separator).
C5_ExtractedNames ==
    extracted.entry > 0 =>
      LET def == content.procnames[extracted.entry]
      IN  (def.report_missing = "true" /\ ExtractionTyped(def)) =>
            IF def.name.t = "str" THEN extracted.names = <<def.name.s>>
            ELSE SameCollection(extracted.names,
                                Strings(def.comm.items) \o Basenames(Strings(def.exe.items)))

C5_Witness ==
    /\ extracted.entry > 0
    /\ LET def == content.procnames[extracted.entry]
       IN  /\ def.report_missing = "true" /\ ExtractionTyped(def)
           /\ def.name.t = "absent"
           /\ def.comm.t = "list" /\ def.exe.t = "list"
           /\ \E k \in 1..Len(def.exe.items) : ContainsSlash(def.exe.items[k].s)
    /\ Len(extracted.names) = 3

FailingEntries == {k \in 1..Len(content.procnames) : ~Compiles(content.procnames[k])}

\* C6: when some definition of the list does not compile, GetConfig returns an
\* error that carries the index (from 0) of the first such definition, and
\* neither a Config nor a name list; with none failing it returns both.
C6_AllOrNothing ==
    (pc = "done" /\ content.kind = "list") =>
      IF FailingEntries # {}
      THEN /\ ret.status = "err"
           /\ ret.index + 1 \in FailingEntries
           /\ \A k \in FailingEntries : ret.index + 1 <= k
           /\ ret.matchers = <<>> /\ ret.processNames = <<>>
      ELSE ret.status = "ok" /\ Len(ret.matchers) = Len(content.procnames)

C6_Witness ==
    /\ pc = "done" /\ content.kind = "list"
    /\ Len(content.procnames) = 2
    /\ FailingEntries = {2}
    /\ ProcessNamesOutcomes(content.procnames[1]) # {<<>>}
    /\ ret.status = "err" /\ ret.index = 1

NameOnly == Def(Name(Sn), "true", Absent, Absent, Absent)

PathOnly == Def(NoName, "true", Absent, List(<<PathXb>>), Absent)

\* C10 as stated: the name list of a loaded document is the concatenation of
\* its definitions' extracted names, a definition's names do not depend on
\* whether it yields a matcher, and loading the single definition
\* {name: n, report_missing: true} yields the name list [n].
C10_NamesWhateverCompiles ==
    /\ ret.status = "ok" => ret.processNames \in ExtractedLists(content.procnames)
    /\ (pc = "done" /\ content.kind = "list" /\ content.procnames = <<NameOnly>>)
         => ret.status = "ok" /\ ret.processNames = <<Sn>>

\* C10, amended: when every definition compiles, the name list is the
\* concatenation, in definition order, of the definitions' extracted names,
\* and {exe: ["/x/b"], report_missing: true} yields [b]; when one does not
\* compile (as {name: n, report_missing: true}, which has no matcher) there is
\* no name list, although getProcessNames on that definition returns [n].
C10_NamesOfCompiledLists ==
    /\ (pc = "done" /\ content.kind = "list") =>
         /\ FailingEntries = {} =>
              ret.status = "ok" /\ ret.processNames \in ExtractedLists(content.procnames)
         /\ FailingEntries # {} => ret.status = "err" /\ ret.processNames = <<>>
         /\ content.procnames = <<PathOnly>> => ret.processNames = <<Sb>>
         /\ content.procnames = <<NameOnly>> => ret.reason = "no matchers provided"
    /\ (extracted.entry > 0 /\ content.procnames[extracted.entry] = NameOnly)
         => extracted.names = <<Sn>>

C10_Witness ==
    /\ pc = "done" /\ ret.status = "ok"
    /\ Len(content.procnames) = 2
    /\ ProcessNamesOutcomes(content.procnames[1]) # {<<>>}
    /\ ProcessNamesOutcomes(content.procnames[2]) # {<<>>}
    /\ content.procnames[1] # content.procnames[2]
    /\ Len(ret.processNames) >= 2

\* ------------------------------------------------ claims about matching

\* The expression matches somewhere in the text (its .* groups match anything).
MatchesText(re, text) ==
    \E k \in 1..(Len(text) - Len(re.lit) + 1) : SubSeq(text, k, k + Len(re.lit) - 1) = re.lit

\* Every leaf matcher of the rule accepts the process.
RuleAccepts(m, nacl) ==
    /\ m.hasComm => nacl.Name \in m.comms
    /\ m.hasExe => exeMatcherMatch(m.exes, nacl)
    /\ m.hasCmdline => \A k \in 1..Len(m.regexes) : MatchesText(m.regexes[k], Join(nacl.Cmdline))

Accepting(nacl) == {k \in 1..Len(ret.matchers) : RuleAccepts(ret.matchers[k], nacl)}

\* C1: MatchAndName answers with the lowest-index rule whose matchers all
\* accept the process, and with the name that rule's template renders; it
\* answers (false, "") exactly when no rule accepts.
C1_FirstMatchWins ==
    call.kind = "MatchAndName" =>
      IF Accepting(call.nacl) = {}
      THEN ~call.ok /\ call.name = <<>> /\ call.rule = 0
      ELSE /\ call.ok
           /\ call.rule \in Accepting(call.nacl)
           /\ \A k \in Accepting(call.nacl) : call.rule <= k
           /\ LET m == ret.matchers[call.rule]
              IN  call.name = TemplateExecute(m.template,
                      TemplateParams(call.nacl, IF m.hasCmdline THEN m.captures ELSE {}))

C1_Witness ==
    /\ call.kind = "MatchAndName" /\ call.ok
    /\ Cardinality(Accepting(call.nacl)) = 2
    /\ call.rule = 1
    /\ ret.matchers[1].template # ret.matchers[2].template

\* C3: cmdlineMatcher.Match is true exactly when every regex of the list
\* matches the command line joined by single spaces, whatever the capture
\* storage held before the call.
C3_AndOverRegexes ==
    call.kind = "cmdline" =>
      call.ok = \A k \in 1..Len(ret.matchers[call.rule].regexes) :
                   MatchesText(ret.matchers[call.rule].regexes[k], Join(call.nacl.Cmdline))

C3_Witness ==
    /\ call.kind = "cmdline" /\ ~call.ok
    /\ Len(ret.matchers[call.rule].regexes) = 2
    /\ MatchesText(ret.matchers[call.rule].regexes[1], Join(call.nacl.Cmdline))
    /\ ~MatchesText(ret.matchers[call.rule].regexes[2], Join(call.nacl.Cmdline))
    /\ \E p \in call.stale : p[1] = "w" /\ p[2] # <<>>

\* The matchers as getMatchNamer built them: empty capture storage.
Fresh(matchers) == [k \in 1..Len(matchers) |-> [matchers[k] EXCEPT !.captures = {}]]

\* C7: the result of a MatchAndName call is the result the same attributes give
\* on a freshly compiled copy of the rule set.
C7_NoLeakBetweenCalls ==
    call.kind = "MatchAndName" =>
      LET fresh == FirstMatcherMatchAndName(Fresh(ret.matchers), call.nacl)
      IN  call.ok = fresh.matched /\ call.name = fresh.name /\ call.rule = fresh.rule

\* A call that renders captures from a storage that, before the call, held
\* the captures of another command line.
C7_Witness ==
    /\ call.kind = "MatchAndName" /\ call.ok
    /\ ret.matchers[call.rule].hasCmdline
    /\ \E tok \in MatchesTokens :
         tok \in {ret.matchers[call.rule].template[j] :
                    j \in 1..Len(ret.matchers[call.rule].template)}
    /\ \E p \in call.stale : p[1] \in {"v", "w"} /\ p[2] # <<>> /\ p \notin ret.matchers[call.rule].captures

\* C8: the rules are immutable once loaded: no call leaves a captured value
\* stored in a cmdline matcher.
C8_RulesImmutable ==
    Loaded => \A k \in 1..Len(ret.matchers) : ret.matchers[k].captures = {}

\* C9: the exe matcher accepts a process exactly when its Cmdline is not empty
\* and some entry of the exe list admits it: a bare entry by the basename of
\* Cmdline[0], an entry with a separator by Cmdline[0] itself.
C9_EveryExeEntryEffective ==
    call.kind = "exe" =>
      LET E == Strings(content.procnames[call.rule].exe.items)
      IN  call.ok = (/\ Len(call.nacl.Cmdline) > 0
                     /\ \E j \in 1..Len(E) :
                          \/ ~ContainsSlash(E[j]) /\ Base(call.nacl.Cmdline[1]) = E[j]
                          \/ ContainsSlash(E[j]) /\ call.nacl.Cmdline[1] = E[j])

\* C2: a call that runs concurrently with another one returns the name its
\* own process gives on the rule set: no capture of the other call's command
\* line shows in it.
C2_ConcurrentCallsIsolated ==
    \A t \in Threads :
      th[t].pc = "done" =>
        LET alone == FirstMatcherMatchAndName(Fresh(ret.matchers), th[t].nacl)
        IN  th[t].ok = alone.matched /\ th[t].name = alone.name

====
